---- MODULE Spec2Model ----
(***************************************************************************)
(* A model of hphp/util/file-cache.cpp: FileCache, the archive of static   *)
(* files, source placeholders and directories that is built with write(),  *)
(* stored with save() and read back with load() or loadMmap().             *)
(*                                                                         *)
(* Bytes are the integers 0..255; 256 stands for a byte of heap memory     *)
(* that was allocated and never written.  A path is a sequence of bytes.   *)
(* 16-bit and 32-bit fields are little-endian two's complement, as the     *)
(* host writes them.                                                       *)
(*                                                                         *)
(* The process-wide flag UseNewCache is false throughout: the delegation   *)
(* to CacheManager is outside this file.  The gzip codec and               *)
(* is_compressible_file live in other files of the repository and are      *)
(* modelled by a small run-length codec and an extension test.             *)
(***************************************************************************)
EXTENDS Integers, Sequences, FiniteSets, TLC

VARIABLES
  m_files,   \* FileMap: path -> Buffer [len, data, clen, cdata]
  m_fd,      \* descriptor of the mapped archive, -1 when there is none
  m_size,    \* size of the mapped region
  m_addr,    \* 0 = nullptr, -1 = MAP_FAILED, n > 0 = the n-th mapping of the process
  heap,      \* live malloc blocks: id -> [size, init] (init = the bytes written so far)
  regions,   \* the mappings the process made (never unmapped before teardown)
  disk,      \* the archive file save() wrote last
  proc,      \* "live", "aborted" (an assertion tripped or the process crashed), "destroyed"
  ndebug,    \* the build: TRUE when assert() is compiled out (always_assert stays)
  last,      \* the last call: what it was given and what it reported
  hist       \* history of this container: what was registered, what was saved

vars == <<m_files, m_fd, m_size, m_addr, heap, regions, disk, proc, ndebug, last, hist>>

-----------------------------------------------------------------------------
(* Bounds *)

\* registrations (write calls) in one behaviour
MaxReg == 2
\* load / loadMmap calls in one behaviour
MaxLoads == 1

-----------------------------------------------------------------------------
(* Program constants *)

kFileCacheVersion_1 == 1
kCurrentFileCacheVersion == kFileCacheVersion_1

UseNewCache == FALSE

-----------------------------------------------------------------------------
(* Bytes, integers of fixed width, C strings *)

Min(a, b) == IF a < b THEN a ELSE b

\* the two bytes of a short, low byte first
ShortBytes(n) ==
  LET u == n % 65536 IN <<u % 256, u \div 256>>

\* the four bytes of a non-negative int, low byte first
NatBytes(u) ==
  <<u % 256, (u \div 256) % 256, (u \div 65536) % 256, u \div 16777216>>

\* the four bytes of an int, low byte first (two's complement: the bytes of
\* n < 0 are the complements of the bytes of -(n + 1))
IntBytes(n) ==
  IF n >= 0 THEN NatBytes(n)
  ELSE LET m == NatBytes(-(n + 1)) IN [i \in 1..4 |-> 255 - m[i]]

\* the short held in two bytes
ToShort(b) ==
  LET u == b[1] + 256 * b[2] IN IF u >= 32768 THEN u - 65536 ELSE u

\* the int held in four bytes
ToInt(b) ==
  IF b[4] < 128 THEN b[1] + 256 * b[2] + 65536 * b[3] + 16777216 * b[4]
  ELSE -((255 - b[1]) + 256 * (255 - b[2]) + 65536 * (255 - b[3])
         + 16777216 * (255 - b[4])) - 1

\* std::string::c_str() seen as a C string: the bytes before the first NUL
RECURSIVE CStr(_)
CStr(s) ==
  IF s = <<>> \/ s[1] = 0 THEN <<>> ELSE <<s[1]>> \o CStr(Tail(s))

\* n copies of byte b
Rep(b, n) == [i \in 1..n |-> b]

-----------------------------------------------------------------------------
(* The codec and the compression policy (hphp/util/compression.h, util.h)  *)

\* length of the run of equal bytes s starts with, at most 255
RunLen(s) ==
  IF s = <<>> THEN 0
  ELSE CHOOSE n \in 1..Min(255, Len(s)) :
         /\ \A i \in 1..n : s[i] = s[1]
         /\ n = Min(255, Len(s)) \/ s[n + 1] # s[1]

RECURSIVE EncodeRuns(_)
EncodeRuns(s) ==
  IF s = <<>> THEN <<>>
  ELSE LET n == RunLen(s)
       IN IF n >= 3 \/ s[1] = 255
          THEN <<255, n, s[1]>> \o EncodeRuns(SubSeq(s, n + 1, Len(s)))
          ELSE <<s[1]>> \o EncodeRuns(Tail(s))

\* gzencode(data, len, 9, CODING_GZIP): a magic byte, then literals and
\* (255, count, byte) runs
gzencode(data) == <<31>> \o EncodeRuns(data)

\* the decoded bytes, or <<-1>> when the stream is malformed
RECURSIVE DecodeRuns(_)
DecodeRuns(c) ==
  IF c = <<>> THEN <<>>
  ELSE IF c[1] = 255
       THEN IF Len(c) < 3 \/ c[2] = 0 \/ c[2] > 255 \/ c[3] > 255 THEN <<-1>>
            ELSE LET rest == DecodeRuns(SubSeq(c, 4, Len(c)))
                 IN IF rest = <<-1>> THEN rest ELSE Rep(c[3], c[2]) \o rest
       ELSE IF c[1] > 255 THEN <<-1>>
            ELSE LET rest == DecodeRuns(Tail(c))
                 IN IF rest = <<-1>> THEN rest ELSE <<c[1]>> \o rest

\* gzdecode(data, len): [ok, bytes]; ok = FALSE is the nullptr result
gzdecode(c) ==
  IF c = <<>> \/ c[1] # 31 THEN [ok |-> FALSE, bytes |-> <<>>]
  ELSE LET d == DecodeRuns(Tail(c))
       IN IF d = <<-1>> THEN [ok |-> FALSE, bytes |-> <<>>]
          ELSE [ok |-> TRUE, bytes |-> d]

\* is_compressible_file(name): false for names with an already-compressed
\* extension (here ".z")
is_compressible_file(name) ==
  ~(Len(name) >= 2 /\ SubSeq(name, Len(name) - 1, Len(name)) = <<46, 122>>)

-----------------------------------------------------------------------------
(* Pointers, the heap and the mapped regions *)

Null == [k |-> "null", id |-> 0, off |-> 0]
HeapPtr(i) == [k |-> "heap", id |-> i, off |-> 0]
MapPtr(r, o) == [k |-> "mmap", id |-> r, off |-> o]
\* the shared empty string read() returns for an empty static file
EmptyStr == [k |-> "static", id |-> 0, off |-> 0]

\* malloc: the lowest free block id
NewId(h) ==
  CHOOSE i \in 1..(Cardinality(DOMAIN h) + 1) :
    i \notin DOMAIN h /\ \A j \in 1..(i - 1) : j \in DOMAIN h

\* the heap after malloc(size) and writing the bytes init into the block
Malloc(h, size, init) ==
  LET i == NewId(h)
  IN [j \in DOMAIN h \cup {i} |-> IF j = i THEN [size |-> size, init |-> init] ELSE h[j]]

Free(h, i) == [j \in DOMAIN h \ {i} |-> h[j]]

\* the byte at index i (from 0) of a byte sequence; 256 past its end
ByteAt(s, i) == IF i >= 0 /\ i < Len(s) THEN s[i + 1] ELSE 256

\* the n bytes a pointer points at
BytesAt(p, n, h, rg) ==
  IF p.k = "heap"
    THEN IF p.id \in DOMAIN h
           THEN [i \in 1..n |-> ByteAt(h[p.id].init, i - 1)]
           ELSE [i \in 1..n |-> 256]
  ELSE IF p.k = "mmap"
    THEN [i \in 1..n |-> ByteAt(rg[p.id], p.off + i - 1)]
  ELSE <<>>

-----------------------------------------------------------------------------
(* The table *)

Buffer(len, data, clen, cdata) ==
  [len |-> len, data |-> data, clen |-> clen, cdata |-> cdata]

\* m_files[name] = buf
Put(files, name, buf) ==
  [k \in DOMAIN files \cup {name} |-> IF k = name THEN buf ELSE files[k]]

EmptyMap == [k \in {} |-> 0]

\* FileCache::exists(name) with isRelative = true
exists(files, name) == name # <<>> /\ name \in DOMAIN files

\* FileCache::fileExists(name) with isRelative = true
fileExists(files, name) ==
  name # <<>> /\ name \in DOMAIN files /\ files[name].len >= -1

\* FileCache::dirExists(name) with isRelative = true
dirExists(files, name) ==
  name # <<>> /\ name \in DOMAIN files /\ files[name].len = -2

\* FileCache::writeDirectories: the loop from index i on
RECURSIVE writeDirectoriesFrom(_, _, _)
writeDirectoriesFrom(files, sname, i) ==
  IF i >= Len(sname) THEN files
  ELSE IF sname[i + 1] = 47
       THEN LET dir == SubSeq(sname, 1, i)
            IN IF ~exists(files, dir)
               THEN writeDirectoriesFrom(Put(files, dir, Buffer(-2, Null, -2, Null)),
                                         sname, i + 1)
               ELSE writeDirectoriesFrom(files, sname, i + 1)
       ELSE writeDirectoriesFrom(files, sname, i + 1)

\* a faulty variant: the loop starts one character too late, so that a
\* one-character first component is never synthesized
writeDirectories_late(files, name) == writeDirectoriesFrom(files, name, 2)

writeDirectories(files, name) == writeDirectoriesFrom(files, name, 1)

-----------------------------------------------------------------------------
(* The builder: FileCache::write, both overloads *)

\* FileCache::write(name, addDirectories) past its assertions
write_name(files, name, addDirectories) ==
  LET f1 == Put(files, name, Buffer(-1, Null, -1, Null))
  IN IF addDirectories THEN writeDirectories(f1, name) ELSE f1

\* a faulty variant: the test done without the integer division
keep_compressed_exact(new_len, len) == 4 * new_len < 3 * len

\* the test that keeps gzencode's result: new_len < ((buffer.len * 3) / 4)
keep_compressed(new_len, len) == new_len < ((len * 3) \div 4)

\* FileCache::write(name, fullpath) past its assertions.  src is the content
\* of the file at fullpath; io says which system call fails, if any:
\* "stat", "open", "read" (the file is shorter than stat said), "gz"
\* (gzencode returns nullptr) or "ok".
write_fullpath(files, h, name, src, io) ==
  IF io = "stat" THEN [files |-> files, heap |-> h, outcome |-> "throw"]
  ELSE
  LET len == Len(src)
      f1 == Put(files, name, Buffer(len, Null, -1, Null))
  IN IF len = 0
       THEN [files |-> writeDirectories(f1, name), heap |-> h, outcome |-> "ok"]
     ELSE IF io = "open"
       THEN [files |-> f1, heap |-> h, outcome |-> "throw"]
     ELSE
     LET buf == NewId(h)
         got == IF io = "read" THEN SubSeq(src, 1, len - 1) ELSE src
         h1 == Malloc(h, len, got)
         f2 == Put(f1, name, Buffer(len, HeapPtr(buf), -1, Null))
     IN IF io = "read"
          THEN [files |-> f2, heap |-> h1, outcome |-> "throw"]
        ELSE IF is_compressible_file(name) /\ io # "gz"
          THEN LET z == gzencode(src)
                   new_len == Len(z)
                   compressed == NewId(h1)
               IN IF keep_compressed(new_len, len)
                    THEN [files |-> writeDirectories(
                                      Put(f2, name, Buffer(len, HeapPtr(buf), new_len,
                                                           HeapPtr(compressed))), name),
                          heap |-> Malloc(h1, new_len, z),
                          outcome |-> "ok"]
                    ELSE [files |-> writeDirectories(f2, name), heap |-> h1,
                          outcome |-> "ok"]
        ELSE [files |-> writeDirectories(f2, name), heap |-> h1, outcome |-> "ok"]

-----------------------------------------------------------------------------
(* FileCache::save *)

\* lexicographic order of paths: the order the records are written in
RECURSIVE LexLess(_, _)
LexLess(a, b) ==
  IF a = <<>> THEN b # <<>>
  ELSE IF b = <<>> THEN FALSE
  ELSE IF a[1] # b[1] THEN a[1] < b[1]
  ELSE LexLess(Tail(a), Tail(b))

RECURSIVE KeysInOrder(_)
KeysInOrder(S) ==
  IF S = {} THEN <<>>
  ELSE LET k == CHOOSE x \in S : \A y \in S \ {x} : LexLess(x, y)
       IN <<k>> \o KeysInOrder(S \ {k})

\* save_record writing the compressed flag as 0 for every entry
save_record_flag0(name, buffer, h, rg) ==
  LET head == ShortBytes(Len(name)) \o name
  IN IF buffer.cdata # Null
       THEN head \o <<0>> \o IntBytes(buffer.clen)
                 \o BytesAt(buffer.cdata, buffer.clen, h, rg) \o <<0>>
     ELSE IF buffer.len > 0
       THEN IF buffer.data = Null THEN <<-1>>
            ELSE head \o <<0>> \o IntBytes(buffer.len)
                      \o BytesAt(buffer.data, buffer.len, h, rg) \o <<0>>
     ELSE head \o <<0>> \o IntBytes(buffer.len)

\* one record of the archive, or <<-1>> where save() dereferences a null
\* pointer (assert(buffer.data) in a debug build, fwrite(nullptr) otherwise)
save_record(name, buffer, h, rg) ==
  LET head == ShortBytes(Len(name)) \o name
  IN IF buffer.cdata # Null
       THEN head \o <<1>> \o IntBytes(buffer.clen)
                 \o BytesAt(buffer.cdata, buffer.clen, h, rg) \o <<0>>
     ELSE IF buffer.len > 0
       THEN IF buffer.data = Null THEN <<-1>>
            ELSE head \o <<0>> \o IntBytes(buffer.len)
                      \o BytesAt(buffer.data, buffer.len, h, rg) \o <<0>>
     ELSE head \o <<0>> \o IntBytes(buffer.len)

RECURSIVE save_records(_, _, _, _)
save_records(keys, files, h, rg) ==
  IF keys = <<>> THEN <<>>
  ELSE LET r == save_record(keys[1], files[keys[1]], h, rg)
           rest == save_records(Tail(keys), files, h, rg)
       IN IF r = <<-1>> \/ rest = <<-1>> THEN <<-1>> ELSE r \o rest

\* the bytes save() writes: the header, then one record per entry
save_bytes(files, h, rg) ==
  LET recs == save_records(KeysInOrder(DOMAIN files), files, h, rg)
  IN IF recs = <<-1>> THEN recs
     ELSE ShortBytes(-1) \o ShortBytes(kCurrentFileCacheVersion) \o recs

-----------------------------------------------------------------------------
(* Reading a stream: read_bytes(FILE*, ...) and feof *)

\* read_bytes(f, buf, len) on a stream over `bytes` at position pos:
\* ok is its result, buf the bytes it stored, eof the stream's end-of-file flag
read_bytes_file(bytes, pos, eof, len) ==
  LET avail == Len(bytes) - pos
      n == IF len > 0 THEN Min(len, avail) ELSE 0
  IN [ok  |-> len > 0 /\ avail >= len,
      buf |-> SubSeq(bytes, pos + 1, pos + n),
      pos |-> pos + n,
      eof |-> eof \/ (len > 0 /\ avail < len)]

\* the value of a short initialised to -1 and then overwritten by the bytes read
ShortOver(buf) ==
  ToShort(<<IF Len(buf) >= 1 THEN buf[1] ELSE 255,
            IF Len(buf) >= 2 THEN buf[2] ELSE 255>>)

\* FileCache::getVersion on a file that is not in the new cache's format
getVersion(bytes) ==
  LET r1 == read_bytes_file(bytes, 0, FALSE, 2)
      tag == ShortOver(r1.buf)
      r2 == read_bytes_file(bytes, r1.pos, r1.eof, 2)
  IN IF ~r1.ok \/ tag > 0 THEN -1 ELSE ShortOver(r2.buf)

-----------------------------------------------------------------------------
(* FileCache::load: full deserialisation into owned buffers *)

\* the payload of one record with len > 0 (lines 326-358).  st is the loop's
\* state [pos, eof, files, heap, outcome, done]; the entry was stored already.
\* done is the set of paths whose records were parsed to their end.
load_payload(bytes, onDemandUncompress, version, st, file, c, len) ==
  LET want == IF version > 0 THEN len + 1 ELSE len
      r == read_bytes_file(bytes, st.pos, st.eof, want)
      id == NewId(st.heap)
      got == IF version > 0 \/ ~r.ok THEN r.buf ELSE r.buf \o <<0>>
      h1 == Malloc(st.heap, len + 1, got)
      f1 == Put(st.files, file, Buffer(len, HeapPtr(id), -1, Null))
      s1 == [st EXCEPT !.pos = r.pos, !.eof = r.eof, !.files = f1, !.heap = h1]
  IN IF ~r.ok THEN [s1 EXCEPT !.outcome = "throw"]
     ELSE IF version > 0 /\ r.buf[len + 1] # 0 THEN [s1 EXCEPT !.outcome = "abort"]
     ELSE IF c = 0 THEN s1
     ELSE IF onDemandUncompress
       THEN [s1 EXCEPT !.files = Put(f1, file, Buffer(-1, Null, len, HeapPtr(id)))]
     ELSE
       LET z == gzdecode(SubSeq(r.buf, 1, len))
           new_len == Len(z.bytes)
           uncompressed == NewId(h1)
       IN IF ~z.ok THEN [s1 EXCEPT !.outcome = "throw"]
          ELSE [s1 EXCEPT
                  !.heap = Malloc(h1, new_len + 1, z.bytes \o <<0>>),
                  !.files = Put(f1, file,
                                Buffer(new_len, HeapPtr(uncompressed), len, HeapPtr(id)))]

\* the while (true) loop of load (lines 295-359)
RECURSIVE load_loop(_, _, _, _)
load_loop(bytes, onDemandUncompress, version, st) ==
  LET r1 == read_bytes_file(bytes, st.pos, st.eof, 2)
      name_len == ToShort(r1.buf)
  IN IF ~r1.ok \/ name_len <= 0
       THEN IF r1.eof THEN [st EXCEPT !.pos = r1.pos, !.eof = r1.eof, !.outcome = "ok"]
            ELSE [st EXCEPT !.pos = r1.pos, !.outcome = "throw"]
     ELSE
     LET r2 == read_bytes_file(bytes, r1.pos, r1.eof, name_len)
         file == r2.buf
     IN IF ~r2.ok THEN [st EXCEPT !.pos = r2.pos, !.eof = r2.eof, !.outcome = "throw"]
        ELSE IF exists(st.files, CStr(file))
          THEN [st EXCEPT !.pos = r2.pos, !.outcome = "throw"]
        ELSE
        LET r3 == read_bytes_file(bytes, r2.pos, r2.eof, 1)
            r4 == read_bytes_file(bytes, r3.pos, r3.eof, 4)
        IN IF ~r3.ok
             THEN [st EXCEPT !.pos = r3.pos, !.eof = r3.eof, !.outcome = "throw"]
           ELSE IF ~r4.ok
             THEN [st EXCEPT !.pos = r4.pos, !.eof = r4.eof, !.outcome = "throw"]
           ELSE
           LET c == r3.buf[1]
               len == ToInt(r4.buf)
               s1 == [st EXCEPT !.pos = r4.pos, !.eof = r4.eof,
                                !.files = Put(st.files, file, Buffer(len, Null, -1, Null))]
               s2 == IF len > 0
                       THEN load_payload(bytes, onDemandUncompress, version, s1, file, c, len)
                       ELSE s1
           IN IF s2.outcome # "run" THEN s2
              ELSE load_loop(bytes, onDemandUncompress, version,
                             [s2 EXCEPT !.done = @ \cup {file}])

\* FileCache::load once the file is open: [files, heap, outcome, done]
load_file(bytes, onDemandUncompress, version, files, h) ==
  LET h1 == read_bytes_file(bytes, 0, FALSE, 2)
      h2 == read_bytes_file(bytes, h1.pos, h1.eof, 2)
      st == [pos |-> IF version > 0 THEN h2.pos ELSE 0,
             eof |-> IF version > 0 THEN h2.eof ELSE FALSE,
             files |-> files, heap |-> h, outcome |-> "run", done |-> {}]
      result(end) ==
        [files |-> end.files, heap |-> end.heap, outcome |-> end.outcome, done |-> end.done]
  IN result(load_loop(bytes, onDemandUncompress, version, st))

-----------------------------------------------------------------------------
(* FileCache::loadMmap: zero-copy parsing over the mapped file *)

Max(a, b) == IF a > b THEN a ELSE b

\* read_bytes(ptr, end, buf, len) over the region `bytes`; p and e are offsets
\* from m_addr
read_bytes_mem(bytes, p, e, len) ==
  IF p + len <= e
    THEN [ok |-> len # 0, buf |-> [i \in 1..len |-> ByteAt(bytes, p + i - 1)], p |-> p + len]
    ELSE [ok |-> FALSE, buf |-> <<>>, p |-> p]

\* a faulty variant: a payload is accepted when it ends where the region ends,
\* leaving no room for its terminator
payload_refused_past(p, len, e) == p + len > e

\* whether the payload of len bytes at p, with its terminator, is refused
\* (line 451)
payload_refused(p, len, e) == p + len >= e

\* the while (p < e) loop of loadMmap (lines 418-465).  st is
\* [p, files, outcome, hi, done]; hi is one past the highest offset the parser
\* read, done the set of paths whose records were parsed to their end.
RECURSIVE mmap_loop(_, _, _, _)
mmap_loop(bytes, region, e, st) ==
  IF ~(st.p < e) THEN [st EXCEPT !.outcome = "ok"]
  ELSE
  LET r1 == read_bytes_mem(bytes, st.p, e, 2)
      name_len == ToShort(r1.buf)
  IN IF ~r1.ok \/ name_len <= 0
       THEN [st EXCEPT !.outcome = "throw", !.hi = Max(st.hi, r1.p)]
     ELSE
     LET r2 == read_bytes_mem(bytes, r1.p, e, name_len)
         file == r2.buf
     IN IF ~r2.ok THEN [st EXCEPT !.outcome = "throw", !.hi = Max(st.hi, r1.p)]
        ELSE IF exists(st.files, CStr(file))
          THEN [st EXCEPT !.outcome = "throw", !.hi = Max(st.hi, r2.p)]
        ELSE
        LET r3 == read_bytes_mem(bytes, r2.p, e, 1)
            r4 == read_bytes_mem(bytes, r3.p, e, 4)
        IN IF ~r3.ok \/ ~r4.ok
             THEN [st EXCEPT !.outcome = "throw",
                             !.hi = Max(st.hi, IF r3.ok THEN r3.p ELSE r2.p)]
           ELSE
           LET c == r3.buf[1]
               len == ToInt(r4.buf)
               p == r4.p
               f1 == Put(st.files, file, Buffer(len, Null, -1, Null))
           IN IF len <= 0
                THEN mmap_loop(bytes, region, e,
                               [st EXCEPT !.p = p, !.files = f1, !.hi = Max(st.hi, p),
                                          !.done = @ \cup {file}])
              ELSE IF payload_refused(p, len, e)
                THEN [st EXCEPT !.p = p, !.files = f1, !.outcome = "throw",
                                !.hi = Max(st.hi, p)]
              ELSE
              LET f2 == Put(f1, file, Buffer(len, MapPtr(region, p), -1, Null))
                  f3 == Put(f1, file, Buffer(-1, Null, len, MapPtr(region, p)))
                  hi == Max(st.hi, p + len + 1)
              IN IF ByteAt(bytes, p + len) # 0
                   THEN [st EXCEPT !.p = p + len, !.files = f2, !.outcome = "abort",
                                   !.hi = hi]
                 ELSE mmap_loop(bytes, region, e,
                                [st EXCEPT !.p = p + len + 1,
                                           !.files = IF c # 0 THEN f3 ELSE f2,
                                           !.hi = hi,
                                           !.done = @ \cup {file}])

\* FileCache::loadMmap from "char *p = (char *)m_addr" on: the table, the
\* outcome, the cursor p at the end and hi
load_region(bytes, region, files) ==
  LET e == Len(bytes)
      result(end) ==
        [files |-> end.files, outcome |-> end.outcome, hi |-> end.hi, p |-> end.p,
         done |-> end.done]
  IN result(mmap_loop(bytes, region, e,
                      [p |-> 2 + 2, files |-> files, outcome |-> "run", hi |-> 0,
                       done |-> {}]))

-----------------------------------------------------------------------------
(* The query API *)

\* FileCache::read(name, len, compressed): the pointer returned, the values
\* left in len and compressed, and whether the assert()s on the way hold
read(files, name, len, compressed) ==
  IF name # <<>> /\ name \in DOMAIN files
    THEN LET buf == files[name]
         IN IF compressed /\ buf.cdata # Null
              THEN [ret |-> buf.cdata, len |-> buf.clen, compressed |-> compressed,
                    asserts |-> buf.clen > 0]
            ELSE IF ~compressed /\ buf.data = Null /\ buf.cdata # Null
              THEN [ret |-> buf.cdata, len |-> buf.clen, compressed |-> TRUE,
                    asserts |-> buf.clen > 0]
            ELSE IF buf.len = 0
              THEN [ret |-> EmptyStr, len |-> 0, compressed |-> FALSE,
                    asserts |-> buf.data = Null]
            ELSE [ret |-> buf.data, len |-> buf.len, compressed |-> FALSE,
                  asserts |-> TRUE]
    ELSE [ret |-> Null, len |-> len, compressed |-> compressed, asserts |-> TRUE]

\* a call of read in a build with assertions (nd false) or without: it
\* aborts where an assert() fails, else returns
read_call(files, name, compressed, nd) ==
  LET call(r) ==
        IF ~nd /\ ~r.asserts
          THEN [outcome |-> "abort", ret |-> Null, len |-> 0, compressed |-> compressed]
          ELSE [outcome |-> "ok", ret |-> r.ret, len |-> r.len, compressed |-> r.compressed]
  IN call(read(files, name, 0, compressed))

\* a faulty variant: the decompressed bytes are kept in the entry instead of
\* being freed
fileSize_keeping(files, h, rg, name) ==
  IF name = <<>> \/ name \notin DOMAIN files
    THEN [ret |-> -1, outcome |-> "ok", files |-> files, heap |-> h]
  ELSE
  LET buf == files[name]
  IN IF buf.len >= 0 THEN [ret |-> buf.len, outcome |-> "ok", files |-> files, heap |-> h]
     ELSE IF buf.cdata # Null
       THEN LET z == gzdecode(BytesAt(buf.cdata, buf.clen, h, rg))
                new_len == Len(z.bytes)
                uncompressed == NewId(h)
            IN IF ~z.ok THEN [ret |-> -1, outcome |-> "throw", files |-> files, heap |-> h]
               ELSE [ret |-> new_len, outcome |-> "ok",
                     files |-> Put(files, name,
                                   Buffer(new_len, HeapPtr(uncompressed), buf.clen, buf.cdata)),
                     heap |-> Malloc(h, new_len + 1, z.bytes \o <<0>>)]
     ELSE [ret |-> -1, outcome |-> "ok", files |-> files, heap |-> h]

\* FileCache::fileSize(name, true): the value returned (or the exception),
\* and the table and heap it leaves
fileSize(files, h, rg, name) ==
  IF name = <<>> \/ name \notin DOMAIN files
    THEN [ret |-> -1, outcome |-> "ok", files |-> files, heap |-> h]
  ELSE
  LET buf == files[name]
  IN IF buf.len >= 0 THEN [ret |-> buf.len, outcome |-> "ok", files |-> files, heap |-> h]
     ELSE IF buf.cdata # Null
       THEN LET z == gzdecode(BytesAt(buf.cdata, buf.clen, h, rg))
                new_len == Len(z.bytes)
                uncompressed == NewId(h)
            IN IF ~z.ok THEN [ret |-> -1, outcome |-> "throw", files |-> files, heap |-> h]
               ELSE [ret |-> new_len, outcome |-> "ok", files |-> files,
                     heap |-> Free(Malloc(h, new_len + 1, z.bytes \o <<0>>), uncompressed)]
     ELSE [ret |-> -1, outcome |-> "ok", files |-> files, heap |-> h]

\* FileCache::dump: the names, sorted
dump(files) == KeysInOrder(DOMAIN files)

-----------------------------------------------------------------------------
(* FileCache::~FileCache *)

\* the blocks the loop at lines 80-93 frees, with m_fd = -1
FreedBy(files) ==
  {files[k].data.id : k \in {x \in DOMAIN files : files[x].data.k = "heap"}}
    \cup {files[k].cdata.id : k \in {x \in DOMAIN files : files[x].cdata.k = "heap"}}

\* how many times the loop passes block i to free()
FreeCount(files, i) ==
  Cardinality({k \in DOMAIN files : files[k].data = HeapPtr(i)})
    + Cardinality({k \in DOMAIN files : files[k].cdata = HeapPtr(i)})

\* whether the loop frees a block twice, or a block that is not allocated
FreedTwice(files, h) ==
  \E i \in FreedBy(files) : FreeCount(files, i) > 1 \/ i \notin DOMAIN h

\* [heap, outcome, freed, twice, munmap, close]: outcome "abort" when an
\* always_assert trips; freed the blocks given to free(), twice whether one
\* of them was freed before; munmap and close count the calls at lines 97-98.
\* What free() does with a block freed before is undefined: crash says
\* whether the process dies there.
destructor(files, fd, addr, size, h, crash) ==
  LET none == [heap |-> h, outcome |-> "abort", freed |-> {}, twice |-> FALSE,
               munmap |-> 0, close |-> 0]
  IN IF fd = -1
       THEN [heap |-> [i \in DOMAIN h \ FreedBy(files) |-> h[i]],
             outcome |-> IF FreedTwice(files, h) /\ crash THEN "abort" ELSE "ok",
             freed |-> FreedBy(files), twice |-> FreedTwice(files, h),
             munmap |-> 0, close |-> 0]
     ELSE IF \E k \in DOMAIN files : files[k].data # Null /\ files[k].cdata # Null
       THEN none
     ELSE IF addr = 0 \/ ~(size > 0)
       THEN none
     ELSE [heap |-> h, outcome |-> "ok", freed |-> {}, twice |-> FALSE,
           munmap |-> 1, close |-> 1]

-----------------------------------------------------------------------------
(* The inputs of the calls *)

\* paths given to write(): "a", "a/b", "a/b/c", "a//b" and "a/.z"
Names == {<<97>>, <<97, 47, 98>>, <<97, 47, 98, 47, 99>>, <<97, 47, 47, 98>>,
          <<97, 47, 46, 122>>}

\* the paths registered where an archive is saved and loaded again:
\* "a/b" and "a/.z"
FewNames == {<<97, 47, 98>>, <<97, 47, 46, 122>>}

\* contents of the files given to write(name, fullpath): empty, one byte,
\* and seven equal bytes (which the codec shrinks to four)
SrcFiles == {<<>>, <<5>>, <<9, 9, 9, 9, 9, 9, 9>>}

IoWrite == {"ok", "stat", "open", "read", "gz"}
IoMmap == {"ok", "stat", "open", "mmap"}

\* the version argument of load and loadMmap
Versions == {0, kCurrentFileCacheVersion}

\* names given to the queries: the C strings among the keys, and "q"
IsCString(s) == s # <<>> /\ \A i \in 1..Len(s) : s[i] # 0
QueryNames == {k \in DOMAIN m_files : IsCString(k)} \cup {<<113>>}

-----------------------------------------------------------------------------
(* State *)

Call(op, outcome, arg, ret) == [op |-> op, outcome |-> outcome, arg |-> arg, ret |-> ret]

NoSave == [valid |-> FALSE, files |-> EmptyMap, heap |-> EmptyMap]
NewHist(nreg, nloads, saved) ==
  [nreg |-> nreg, nloads |-> nloads, regs |-> {}, clean |-> TRUE, allok |-> TRUE,
   saved |-> saved, mode |-> "new"]

\* FileCache::FileCache, in a process that has allocated nothing yet
Init ==
  /\ m_files = EmptyMap
  /\ m_fd = -1
  /\ m_size = 0
  /\ m_addr = 0
  /\ heap = EmptyMap
  /\ regions = <<>>
  /\ disk = <<>>
  /\ proc = "live"
  /\ ndebug \in BOOLEAN
  /\ last = Call("new", "ok", <<>>, <<>>)
  /\ hist = NewHist(0, 0, NoSave)

\* hist.mode says how this container was populated: "new" by nothing yet,
\* "built" by builder calls only, "owned" by one load that succeeded, "mapped"
\* by one loadMmap that succeeded, "failed" by one load or loadMmap that
\* threw, "mixed" by anything else
Populated(op, outcome) ==
  IF op = "write" THEN IF hist.mode \in {"new", "built"} THEN "built" ELSE "mixed"
  ELSE IF hist.mode # "new" \/ outcome = "abort" THEN "mixed"
  ELSE IF outcome = "throw" THEN "failed"
  ELSE IF op = "load" THEN "owned"
  ELSE "mapped"

\* an assert() or always_assert() tripped, or the process crashed
Abort(op, arg) ==
  /\ proc' = "aborted"
  /\ last' = Call(op, "abort", arg, <<>>)

-----------------------------------------------------------------------------
(* Actions: the builder *)

\* FileCache::write(const char *name, bool addDirectories)
write_placeholder(name, addDirectories) ==
  /\ proc = "live" /\ ~UseNewCache
  /\ hist.nreg < MaxReg
  /\ LET arg == [name |-> name, dirs |-> addDirectories]
     IN IF ~ndebug /\ exists(m_files, name)
          THEN /\ Abort("write_name", arg)
               /\ hist' = [hist EXCEPT !.nreg = @ + 1, !.clean = FALSE, !.allok = FALSE,
                                       !.mode = Populated("write", "abort")]
               /\ UNCHANGED <<m_files, m_fd, m_size, m_addr, heap, regions, disk, ndebug>>
          ELSE /\ m_files' = write_name(m_files, name, addDirectories)
               /\ last' = Call("write_name", "ok", arg, <<>>)
               /\ hist' = [hist EXCEPT !.nreg = @ + 1,
                                       !.regs = @ \cup {arg},
                                       !.clean = @ /\ ~exists(m_files, name),
                                       !.mode = Populated("write", "ok")]
               /\ UNCHANGED <<m_fd, m_size, m_addr, heap, regions, disk, proc, ndebug>>

\* FileCache::write(const char *name, const char *fullpath)
write_file(name, src, io) ==
  /\ proc = "live" /\ ~UseNewCache
  /\ hist.nreg < MaxReg
  /\ LET arg == [name |-> name, dirs |-> TRUE]
         written(r) ==
           /\ m_files' = r.files
           /\ heap' = r.heap
           /\ last' = Call("write_fullpath", r.outcome, arg, <<>>)
           /\ hist' = [hist EXCEPT
                         !.nreg = @ + 1,
                         !.regs = IF r.outcome = "ok"
                                    THEN @ \cup {[name |-> name, dirs |-> TRUE]}
                                    ELSE @,
                         !.clean = @ /\ r.outcome = "ok" /\ ~exists(m_files, name),
                         !.allok = @ /\ r.outcome = "ok",
                         !.mode = Populated("write", r.outcome)]
           /\ UNCHANGED <<m_fd, m_size, m_addr, regions, disk, proc, ndebug>>
     IN IF ~ndebug /\ exists(m_files, name)
          THEN /\ Abort("write_fullpath", arg)
               /\ hist' = [hist EXCEPT !.nreg = @ + 1, !.clean = FALSE, !.allok = FALSE,
                                       !.mode = Populated("write", "abort")]
               /\ UNCHANGED <<m_files, m_fd, m_size, m_addr, heap, regions, disk, ndebug>>
          ELSE written(write_fullpath(m_files, heap, name, src, io))

\* FileCache::save(filename); the file cannot be opened when openOk is false
save(openOk) ==
  /\ proc = "live" /\ ~UseNewCache
  /\ LET saved(out) ==
           IF out = <<-1>>
             THEN /\ Abort("save", <<>>)
                  /\ disk' = <<>>
                  /\ UNCHANGED hist
             ELSE /\ disk' = out
                  /\ last' = Call("save", "ok", <<>>, <<>>)
                  /\ hist' = [hist EXCEPT !.saved = [valid |-> hist.clean,
                                                     files |-> m_files, heap |-> heap]]
                  /\ UNCHANGED proc
     IN IF ~openOk
          THEN /\ last' = Call("save", "throw", <<>>, <<>>)
               /\ UNCHANGED <<disk, proc, hist>>
          ELSE saved(save_bytes(m_files, heap, regions))
  /\ UNCHANGED <<m_files, m_fd, m_size, m_addr, heap, regions, ndebug>>

-----------------------------------------------------------------------------
(* Actions: the loaders *)

\* whether the container holds nothing yet
Fresh == m_files = EmptyMap /\ m_fd = -1 /\ m_addr = 0

\* FileCache::getVersion(filename) on a file holding `bytes`
get_version(bytes, openOk) ==
  /\ proc = "live"
  /\ last' = IF openOk THEN Call("getVersion", "ok", <<>>, getVersion(bytes))
                       ELSE Call("getVersion", "throw", <<>>, <<>>)
  /\ UNCHANGED <<m_files, m_fd, m_size, m_addr, heap, regions, disk, proc, ndebug, hist>>

\* FileCache::load(filename, onDemandUncompress, version) on a file holding `bytes`
load(bytes, onDemandUncompress, version, openOk) ==
  /\ proc = "live" /\ ~UseNewCache
  /\ hist.nloads < MaxLoads
  /\ LET arg == [defer |-> onDemandUncompress, version |-> version, fresh |-> Fresh]
         loaded(r) ==
           /\ m_files' = r.files
           /\ heap' = r.heap
           /\ proc' = IF r.outcome = "abort" THEN "aborted" ELSE proc
           /\ last' = Call("load", r.outcome, arg,
                           [why |-> "format", hi |-> 0, p |-> 0, done |-> r.done])
           /\ hist' = [hist EXCEPT !.nloads = @ + 1, !.clean = FALSE, !.allok = FALSE,
                                   !.mode = Populated("load", r.outcome)]
     IN IF ~openOk
          THEN /\ last' = Call("load", "throw", arg,
                               [why |-> "open", hi |-> 0, p |-> 0, done |-> {}])
               /\ hist' = [hist EXCEPT !.nloads = @ + 1, !.clean = FALSE, !.allok = FALSE,
                                       !.mode = Populated("load", "throw")]
               /\ UNCHANGED <<m_files, heap, proc>>
          ELSE loaded(load_file(bytes, onDemandUncompress, version, m_files, heap))
  /\ UNCHANGED <<m_fd, m_size, m_addr, regions, disk, ndebug>>

\* FileCache::loadMmap(filename, version) on a file holding `bytes`
loadMmap(bytes, version, io) ==
  /\ proc = "live" /\ ~UseNewCache
  /\ hist.nloads < MaxLoads
  /\ LET arg == [defer |-> TRUE, version |-> version, fresh |-> Fresh]
         region == Len(regions) + 1
         logged(outcome) ==
           hist' = [hist EXCEPT !.nloads = @ + 1, !.clean = FALSE, !.allok = FALSE,
                                !.mode = Populated("loadMmap", outcome)]
         mapped(r) ==
           /\ logged(r.outcome)
           /\ m_fd' = 3
           /\ m_addr' = region
           /\ regions' = Append(regions, bytes)
           /\ m_size' = Len(bytes)
           /\ m_files' = r.files
           /\ proc' = IF r.outcome = "abort" THEN "aborted" ELSE proc
           /\ last' = Call("loadMmap", r.outcome, arg,
                           [why |-> "format", hi |-> r.hi, p |-> r.p, done |-> r.done])
     IN IF ~(version > 0)
          THEN /\ Abort("loadMmap", arg)
               /\ logged("abort")
               /\ UNCHANGED <<m_files, m_fd, m_size, m_addr, regions>>
        ELSE IF io = "stat"
          THEN /\ last' = Call("loadMmap", "throw", arg, [why |-> "stat", hi |-> 0, p |-> 0, done |-> {}])
               /\ logged("throw")
               /\ UNCHANGED <<m_files, m_fd, m_size, m_addr, regions, proc>>
        ELSE IF io = "open"
          THEN /\ m_fd' = -1
               /\ last' = Call("loadMmap", "throw", arg, [why |-> "open", hi |-> 0, p |-> 0, done |-> {}])
               /\ logged("throw")
               /\ UNCHANGED <<m_files, m_size, m_addr, regions, proc>>
        ELSE IF io = "mmap" \/ Len(bytes) = 0
          THEN /\ m_fd' = 3
               /\ m_addr' = -1
               /\ last' = Call("loadMmap", "throw", arg, [why |-> "mmap", hi |-> 0, p |-> 0, done |-> {}])
               /\ logged("throw")
               /\ UNCHANGED <<m_files, m_size, regions, proc>>
        ELSE mapped(load_region(bytes, region, m_files))
  /\ UNCHANGED <<heap, disk, ndebug>>

-----------------------------------------------------------------------------
(* Actions: the queries *)

Quiet == UNCHANGED <<m_fd, m_size, m_addr, regions, disk, ndebug, hist>>

query_exists(name) ==
  /\ proc = "live" /\ ~UseNewCache
  /\ last' = Call("exists", "ok", name, exists(m_files, name))
  /\ UNCHANGED <<m_files, heap, proc>> /\ Quiet

query_fileExists(name) ==
  /\ proc = "live" /\ ~UseNewCache
  /\ last' = Call("fileExists", "ok", name, fileExists(m_files, name))
  /\ UNCHANGED <<m_files, heap, proc>> /\ Quiet

query_dirExists(name) ==
  /\ proc = "live" /\ ~UseNewCache
  /\ last' = Call("dirExists", "ok", name, dirExists(m_files, name))
  /\ UNCHANGED <<m_files, heap, proc>> /\ Quiet

query_read(name, compressed) ==
  /\ proc = "live" /\ ~UseNewCache
  /\ LET arg == [name |-> name, compressed |-> compressed]
         returned(r) ==
           IF r.outcome = "abort"
             THEN Abort("read", arg)
             ELSE /\ last' = Call("read", "ok", arg,
                                  [ret |-> r.ret, len |-> r.len, compressed |-> r.compressed])
                  /\ UNCHANGED proc
     IN returned(read_call(m_files, name, compressed, ndebug))
  /\ UNCHANGED <<m_files, heap>> /\ Quiet

query_fileSize(name) ==
  /\ proc = "live" /\ ~UseNewCache
  /\ LET returned(r) ==
           /\ m_files' = r.files
           /\ heap' = r.heap
           /\ last' = Call("fileSize", r.outcome, name, r.ret)
     IN returned(fileSize(m_files, heap, regions, name))
  /\ UNCHANGED proc /\ Quiet

query_dump ==
  /\ proc = "live" /\ ~UseNewCache
  /\ last' = Call("dump", "ok", <<>>, dump(m_files))
  /\ UNCHANGED <<m_files, heap, proc>> /\ Quiet

-----------------------------------------------------------------------------
(* Actions: teardown, and the next process *)

\* FileCache::~FileCache
Destroy ==
  /\ proc = "live" /\ ~UseNewCache
  /\ LET destroyed(r) ==
           /\ heap' = r.heap
           /\ proc' = IF r.outcome = "abort" THEN "aborted" ELSE "destroyed"
           /\ last' = Call("destroy", r.outcome, <<>>,
                           [freed |-> r.freed, twice |-> r.twice,
                            munmap |-> r.munmap, close |-> r.close])
     IN \E crash \in BOOLEAN :
          destroyed(destructor(m_files, m_fd, m_addr, m_size, heap, crash))
  /\ UNCHANGED <<m_files, m_fd, m_size, m_addr, regions, disk, ndebug, hist>>

\* a new process constructs a container; the archive file stays on disk
Construct ==
  /\ proc = "destroyed"
  /\ m_files' = EmptyMap
  /\ m_fd' = -1
  /\ m_size' = 0
  /\ m_addr' = 0
  /\ heap' = EmptyMap
  /\ regions' = <<>>
  /\ proc' = "live"
  /\ last' = Call("new", "ok", <<>>, <<>>)
  /\ hist' = NewHist(hist.nreg, hist.nloads, hist.saved)
  /\ UNCHANGED <<disk, ndebug>>

-----------------------------------------------------------------------------
(* Specification: build, save, load what was saved, tear down *)

Register(names, srcs, ios) ==
  \/ \E name \in names, addDirectories \in BOOLEAN : write_placeholder(name, addDirectories)
  \/ \E name \in names, src \in srcs, io \in ios : write_file(name, src, io)

Queries ==
  \/ \E name \in QueryNames : query_exists(name)
  \/ \E name \in QueryNames : query_fileExists(name)
  \/ \E name \in QueryNames : query_dirExists(name)
  \/ \E name \in QueryNames, compressed \in BOOLEAN : query_read(name, compressed)
  \/ \E name \in QueryNames : query_fileSize(name)
  \/ query_dump

\* the calls that read the archive file
Loads(present) ==
  \/ \E openOk \in BOOLEAN : get_version(disk, openOk /\ present)
  \/ \E d \in BOOLEAN, v \in Versions, openOk \in BOOLEAN :
       load(disk, d, v, openOk /\ present)
  \/ \E v \in Versions, io \in IoMmap :
       loadMmap(disk, v, IF ~present /\ io = "ok" THEN "stat" ELSE io)

Next ==
  \/ Register(FewNames, SrcFiles \ {<<5>>}, {"ok"})
  \/ \E openOk \in BOOLEAN : save(openOk)
  \/ Loads(disk # <<>>)
  \/ Destroy
  \/ Construct

Spec == Init /\ [][Next]_vars

-----------------------------------------------------------------------------
(* Specification of the builder alone *)

NextBuild == Register(Names, SrcFiles, IoWrite)

SpecBuild == Init /\ [][NextBuild]_vars

-----------------------------------------------------------------------------
(* Specification of the loaders and the queries: the archive file is any   *)
(* of a set of well-formed, malformed and truncated archives               *)

\* one record: name length, name, flag, length field, payload, terminator
Rec(name, c, len, payload, term) ==
  ShortBytes(Len(name)) \o name \o <<c>> \o IntBytes(len) \o payload \o term

Header == ShortBytes(-1) \o ShortBytes(kCurrentFileCacheVersion)

RecPlaceholder == Rec(<<97>>, 0, -1, <<>>, <<>>)
RecDirectory   == Rec(<<100>>, 0, -2, <<>>, <<>>)
RecEmpty       == Rec(<<101>>, 0, 0, <<>>, <<>>)
RecRaw         == Rec(<<102>>, 0, 1, <<7>>, <<0>>)
RecGz          == Rec(<<122>>, 1, 4, gzencode(<<9, 9, 9, 9, 9, 9, 9>>), <<0>>)
RecGzEmpty     == Rec(<<121>>, 1, 1, gzencode(<<>>), <<0>>)
RecGzBad       == Rec(<<120>>, 1, 1, <<8>>, <<0>>)
RecBadTerm     == Rec(<<116>>, 0, 1, <<7>>, <<1>>)
RecNoName      == ShortBytes(0)
RecNulName     == Rec(<<0>>, 0, -1, <<>>, <<>>)
\* a file whose name is one NUL byte, with one byte of content
RecNulRaw      == Rec(<<0>>, 0, 1, <<7>>, <<0>>)
\* the legacy layout: no terminator after the payload
RecRawLegacy   == Rec(<<102>>, 0, 1, <<7>>, <<>>)

Records == {RecPlaceholder, RecDirectory, RecEmpty, RecRaw, RecGz, RecGzEmpty,
            RecGzBad, RecBadTerm, RecNoName, RecNulName}

Prefixes(a) == {SubSeq(a, 1, k) : k \in 0..Len(a)}

ArchiveFiles ==
  {Header \o r : r \in Records}
    \cup {Header \o r \o r : r \in {RecPlaceholder, RecRaw, RecGz, RecNulName, RecNulRaw}}
    \cup {Header \o RecRaw \o r : r \in {RecPlaceholder, RecNoName, RecGzBad, RecBadTerm}}
    \cup Prefixes(Header \o RecGz \o RecRaw)
    \cup {<<0, 0, 1, 0>> \o RecRaw, <<254, 255, 1, 0>> \o RecRaw,
          RecRawLegacy \o RecPlaceholder}

InitLoad ==
  /\ m_files = EmptyMap
  /\ m_fd = -1
  /\ m_size = 0
  /\ m_addr = 0
  /\ heap = EmptyMap
  /\ regions = <<>>
  /\ disk \in ArchiveFiles
  /\ proc = "live"
  /\ ndebug \in BOOLEAN
  /\ last = Call("new", "ok", <<>>, <<>>)
  /\ hist = NewHist(0, 0, NoSave)

NextLoad ==
  \/ Loads(TRUE)
  \/ Queries
  \/ Destroy

SpecLoad == InitLoad /\ [][NextLoad]_vars

-----------------------------------------------------------------------------
(* Specification of the compression gate: one file of any of a range of    *)
(* sizes and compressed sizes is registered under a compressible path      *)

\* the longest file registered
MaxSrcLen == 100

\* k bytes that encode to k bytes (runs of three: 1 1 1 2 2 2 1 1 1 ..., then
\* the k % 3 bytes left as 4, 5), and then n equal bytes 3
GateFile(k, n) ==
  [i \in 1..(k + n) |->
     IF i > k THEN 3
     ELSE IF i > 3 * (k \div 3) THEN 3 + (i - 3 * (k \div 3))
     ELSE 1 + (((i - 1) \div 3) % 2)]

GateFiles ==
  {GateFile(q[1], q[2]) :
     q \in {x \in (0..MaxSrcLen) \X (0..MaxSrcLen) : x[1] + x[2] \in 1..MaxSrcLen}}

\* the compressible path it is registered under: "a/b"
GatePath == <<97, 47, 98>>

NextGate == \E src \in GateFiles : Fresh /\ write_file(GatePath, src, "ok")

SpecGate == Init /\ [][NextGate]_vars

-----------------------------------------------------------------------------
(* What a caller sees of a table: the results of the queries, by content *)

ReadView(files, h, rg, name, compressed) ==
  LET r == read(files, name, 0, compressed)
  IN [null |-> r.ret = Null,
      bytes |-> IF r.ret.k \in {"heap", "mmap"} THEN BytesAt(r.ret, r.len, h, rg) ELSE <<>>,
      len |-> r.len,
      compressed |-> r.compressed]

SizeView(files, h, rg, name) ==
  LET r == fileSize(files, h, rg, name) IN [ret |-> r.ret, outcome |-> r.outcome]

\* the names a caller can ask about: the keys of both tables and "q"
ViewNames(f1, f2) == {k \in DOMAIN f1 \cup DOMAIN f2 : IsCString(k)} \cup {<<113>>}

-----------------------------------------------------------------------------
(* C1: round trip *)

\* the last call loaded, into a container that held nothing, the archive
\* that save() wrote from a table of successful registrations of unique paths
RoundTripped ==
  /\ last.op \in {"load", "loadMmap"}
  /\ last.outcome = "ok"
  /\ last.arg.fresh
  /\ last.arg.version = kCurrentFileCacheVersion
  /\ hist.saved.valid

SameKinds(name) ==
  /\ exists(m_files, name) = exists(hist.saved.files, name)
  /\ dirExists(m_files, name) = dirExists(hist.saved.files, name)
  /\ fileExists(m_files, name) = fileExists(hist.saved.files, name)
  /\ SizeView(m_files, heap, regions, name)
       = SizeView(hist.saved.files, hist.saved.heap, <<>>, name)

SameRead(name, compressed) ==
  ReadView(m_files, heap, regions, name, compressed)
    = ReadView(hist.saved.files, hist.saved.heap, <<>>, name, compressed)

\* C1 as claimed: after save and a load (owned or mapped) of the saved bytes
\* into a fresh container, exists, isDirectory, isFile, size and read (for
\* both requested flags) give for every path what the saved table gave.
C1_RoundTripAsClaimed ==
  RoundTripped =>
    \A name \in ViewNames(m_files, hist.saved.files) :
      SameKinds(name) /\ SameRead(name, TRUE) /\ SameRead(name, FALSE)

\* C1 amended: exists, isDirectory, isFile, size and read with the
\* compressed form requested round-trip under every loader.  read with the
\* raw form requested round-trips when the loader was the owned loader
\* decompressing eagerly or the saved entry had no compressed form;
\* otherwise (owned loader deferring, or mapped loader) it returns the
\* compressed bytes with the compressed flag set.
C1_RoundTrip ==
  RoundTripped =>
    \A name \in ViewNames(m_files, hist.saved.files) :
      /\ SameKinds(name)
      /\ SameRead(name, TRUE)
      /\ IF (last.op = "load" /\ ~last.arg.defer)
              \/ ~exists(hist.saved.files, name)
              \/ hist.saved.files[name].cdata = Null
           THEN SameRead(name, FALSE)
           ELSE ReadView(m_files, heap, regions, name, FALSE)
                  = ReadView(hist.saved.files, hist.saved.heap, <<>>, name, TRUE)

\* a mapped load of a saved table that holds a compressed file and a directory
C1_Witness ==
  /\ RoundTripped
  /\ last.op = "loadMmap"
  /\ \E name \in DOMAIN m_files : m_files[name].cdata # Null
  /\ \E name \in DOMAIN m_files : m_files[name].len = -2

-----------------------------------------------------------------------------
(* C2: the contract of read *)

\* what C2 says read gives for a name and a requested flag, from the entry alone
ReadAsSpecified(r, name, requested) ==
  IF ~exists(m_files, name) THEN r.ret = Null
  ELSE LET buf == m_files[name]
       IN IF buf.cdata # Null /\ (requested \/ buf.data = Null)
            THEN r.ret = buf.cdata /\ r.len = buf.clen /\ r.compressed
            ELSE /\ r.len = buf.len
                 /\ ~r.compressed
                 /\ r.ret = IF buf.len = 0 THEN EmptyStr ELSE buf.data

\* C2: on every reachable table, read of any name with either requested flag
\* returns, and returns not-found for an absent path, the compressed bytes and
\* length with the flag true exactly when the entry has a compressed form and
\* the caller asked for it or there is no raw form, and otherwise the raw bytes
\* and length with the flag false (the empty sentinel for length 0).
C2_ReadContract ==
  proc = "live" =>
    \A name \in QueryNames, requested \in BOOLEAN :
      LET r == read_call(m_files, name, requested, ndebug)
      IN r.outcome = "ok" /\ ReadAsSpecified(r, name, requested)

\* C2, the part that holds: whenever read returns, it returns what C2 says
C2_ReadWhenItReturns ==
  proc = "live" =>
    \A name \in QueryNames, requested \in BOOLEAN :
      LET r == read_call(m_files, name, requested, ndebug)
      IN r.outcome = "ok" => ReadAsSpecified(r, name, requested)

\* C2: an eager load has stored a zero-length raw form next to a compressed one
C2_EmptyRawBesideCompressed ==
  /\ proc = "live"
  /\ \E k \in DOMAIN m_files :
       m_files[k].len = 0 /\ m_files[k].data # Null /\ m_files[k].cdata # Null

-----------------------------------------------------------------------------
(* C3: directory synthesis *)

Slash == 47

\* the paths registered so far, and those registered with directories
Registered == {r.name : r \in hist.regs}
RegisteredWithDirs == {r.name : r \in {x \in hist.regs : x.dirs}}

\* the prefixes of P before each '/' at index >= 1 (counting from 0)
DirPrefixes(P) == {SubSeq(P, 1, j - 1) : j \in {i \in 2..Len(P) : P[i] = Slash}}

\* P has an empty component: "//" inside, or a '/' at its end
EmptyComponent(P) ==
  \/ P # <<>> /\ P[Len(P)] = Slash
  \/ \E i \in 1..(Len(P) - 1) : P[i] = Slash /\ P[i + 1] = Slash

NoKeyEndsWithSlash == \A k \in DOMAIN m_files : k = <<>> \/ k[Len(k)] # Slash

\* C3 as stated: after successful registrations every '/'-prefix of a
\* registered path is a directory, the path is a file, and no key ends with '/'
C3_DirectorySynthesisAsClaimed ==
  hist.allok =>
    /\ \A P \in RegisteredWithDirs :
         /\ \A d \in DirPrefixes(P) : dirExists(m_files, d)
         /\ fileExists(m_files, P)
    /\ NoKeyEndsWithSlash

\* C3, amended: after successful registrations every '/'-prefix of a registered
\* path is a key, and a directory unless that prefix was itself registered; the
\* path is a file; and no key ends with '/' when no registered path has an empty
\* component.
C3_DirectorySynthesis ==
  hist.allok =>
    /\ \A P \in RegisteredWithDirs :
         /\ \A d \in DirPrefixes(P) :
              /\ exists(m_files, d)
              /\ d \notin Registered => dirExists(m_files, d)
         /\ fileExists(m_files, P)
    /\ (\A P \in Registered : ~EmptyComponent(P)) => NoKeyEndsWithSlash

\* C3: "a/b/c" was registered and both "a" and "a/b" were synthesized
C3_Witness ==
  /\ hist.allok
  /\ <<97, 47, 98, 47, 99>> \in RegisteredWithDirs
  /\ Registered = {<<97, 47, 98, 47, 99>>}
  /\ dirExists(m_files, <<97>>)
  /\ dirExists(m_files, <<97, 47, 98>>)
  /\ fileExists(m_files, <<97, 47, 98, 47, 99>>)

-----------------------------------------------------------------------------
(* C4: duplicate registration *)

\* C4: a call of write with a path that is already a key fails and leaves the
\* table as it was
C4_DuplicateRejected ==
  [][(hist'.nreg = hist.nreg + 1 /\ exists(m_files, last'.arg.name))
       => (last'.outcome # "ok" /\ m_files' = m_files)]_vars

\* C4, the part that holds: with assertions compiled in, such a call aborts
\* and the table is as it was
C4_DuplicateRejectedInDebug ==
  [][(hist'.nreg = hist.nreg + 1 /\ exists(m_files, last'.arg.name) /\ ~ndebug)
       => (last'.outcome = "abort" /\ m_files' = m_files)]_vars

-----------------------------------------------------------------------------
(* C5: a failed load *)

FormatFailure ==
  /\ last.op \in {"load", "loadMmap"}
  /\ last.outcome = "throw"
  /\ last.ret.why = "format"

\* C5: when a load into a fresh container fails with a format failure, the
\* table holds none of the records that were parsed before the failing one
C5_FailedLoadAbandoned ==
  (FormatFailure /\ last.arg.fresh) => DOMAIN m_files \cap last.ret.done = {}

-----------------------------------------------------------------------------
(* C6: the compression gate *)

\* registerFile has stored a file of S > 0 bytes under the compressible path
GateCase ==
  /\ last.op = "write_fullpath" /\ last.outcome = "ok"
  /\ last.arg.name = GatePath
  /\ exists(m_files, GatePath)
  /\ m_files[GatePath].len > 0

GateS == m_files[GatePath].len
GateC == Len(gzencode(BytesAt(m_files[GatePath].data, GateS, heap, regions)))
GateKept == m_files[GatePath].cdata # Null

\* in both cases the raw form is there, and a compressed form that is kept is
\* the encoding
GateForms ==
  /\ m_files[GatePath].data # Null
  /\ GateKept => /\ m_files[GatePath].clen = GateC
                 /\ BytesAt(m_files[GatePath].cdata, GateC, heap, regions)
                      = gzencode(BytesAt(m_files[GatePath].data, GateS, heap, regions))
  /\ ~GateKept => m_files[GatePath].clen = -1

\* C6 as stated: the compressed form is kept if and only if 4*C < 3*S; so it
\* is kept where C = 0.74*S and not kept where C = 0.80*S
C6_GateAsClaimed ==
  GateCase =>
    /\ GateKept <=> 4 * GateC < 3 * GateS
    /\ 100 * GateC = 74 * GateS => GateKept
    /\ 100 * GateC = 80 * GateS => ~GateKept
    /\ GateForms

\* C6, amended: the compressed form is kept if and only if C is strictly less
\* than 3*S divided by 4 and rounded down, that is 4*(C+1) <= 3*S; so it is
\* kept where C = 0.74*S and S >= 100, and not kept where C = 0.80*S
C6_Gate ==
  GateCase =>
    /\ GateKept <=> 4 * (GateC + 1) <= 3 * GateS
    /\ (100 * GateC = 74 * GateS /\ GateS >= 100) => GateKept
    /\ 100 * GateC = 80 * GateS => ~GateKept
    /\ GateForms

\* C6: a file of 100 bytes that encodes to 74 was registered and its
\* compressed form kept
C6_Witness ==
  GateCase /\ GateS = 100 /\ GateC = 74 /\ GateKept

-----------------------------------------------------------------------------
(* C7: version detection *)

\* C7: on an archive of at least four bytes getVersion gives the second field
\* when the first field is -1, and -1 for any other first field
C7_DetectVersion ==
  (last.op = "getVersion" /\ last.outcome = "ok" /\ Len(disk) >= 4) =>
    last.ret = IF ToShort(SubSeq(disk, 1, 2)) = -1
                 THEN ToShort(SubSeq(disk, 3, 4))
                 ELSE -1

\* C7, the part that holds: the second field when the first is -1, and -1
\* when the first field is positive
C7_DetectVersionOfMarked ==
  (last.op = "getVersion" /\ last.outcome = "ok" /\ Len(disk) >= 4) =>
    /\ ToShort(SubSeq(disk, 1, 2)) = -1 => last.ret = ToShort(SubSeq(disk, 3, 4))
    /\ ToShort(SubSeq(disk, 1, 2)) > 0 => last.ret = -1

-----------------------------------------------------------------------------
(* C8: the queries leave the container alone *)

QueryOps == {"exists", "fileExists", "dirExists", "read", "fileSize", "dump"}

\* the entry has only a compressed form
CompressedOnly(buf) == buf.cdata # Null /\ buf.data = Null /\ buf.len < 0

\* C8: a call of exists, dirExists, fileExists, read, fileSize or dump leaves
\* every entry, and the bytes the entries point to, as they were; and fileSize
\* of an entry that has only a compressed form returns the number of bytes it
\* decodes to and leaves the entry without a raw form
C8_QueriesDoNotMutate ==
  [][last'.op \in QueryOps =>
       /\ m_files' = m_files
       /\ heap' = heap
       /\ regions' = regions
       /\ (/\ last'.op = "fileSize" /\ last'.outcome = "ok"
           /\ exists(m_files, last'.arg)
           /\ CompressedOnly(m_files[last'.arg]))
            => /\ last'.ret = Len(gzdecode(BytesAt(m_files[last'.arg].cdata,
                                                   m_files[last'.arg].clen,
                                                   heap, regions)).bytes)
               /\ CompressedOnly(m_files'[last'.arg])]_vars

\* C8: fileSize of "z", loaded with only its compressed form, has returned 7
C8_Witness ==
  /\ last.op = "fileSize" /\ last.outcome = "ok"
  /\ last.arg = <<122>>
  /\ last.ret = 7
  /\ CompressedOnly(m_files[<<122>>])

-----------------------------------------------------------------------------
(* C9: one ownership mode *)

HoldsOwned ==
  \E k \in DOMAIN m_files : m_files[k].data.k = "heap" \/ m_files[k].cdata.k = "heap"
HoldsMapped ==
  \E k \in DOMAIN m_files : m_files[k].data.k = "mmap" \/ m_files[k].cdata.k = "mmap"

\* C9: the container never holds an entry with heap-allocated bytes together
\* with an entry whose bytes lie in the mapped region
C9_SingleOwnershipMode == ~(HoldsOwned /\ HoldsMapped)

-----------------------------------------------------------------------------
(* C10: the mapped loader stays inside the region *)

\* loadMmap has mapped the file and parsed it
MappedParse ==
  /\ last.op = "loadMmap"
  /\ last.arg.version > 0
  /\ last.ret.why = "format"

\* the range [off, off + len] lies inside region r, past the header
InRegion(ptr, len) ==
  ptr.k = "mmap" =>
    /\ ptr.id \in 1..Len(regions)
    /\ ptr.off >= 4
    /\ len > 0
    /\ ptr.off + len < Len(regions[ptr.id])

\* the archives cut inside a record
CutArchives ==
  {a \in Prefixes(Header \o RecGz \o RecRaw) :
     /\ Len(a) > Len(Header)
     /\ Len(a) # Len(Header \o RecGz)
     /\ Len(a) # Len(Header \o RecGz \o RecRaw)}

\* C10: loadMmap reads no byte at or past the end of the region, every
\* payload range it stores lies inside the region with its terminator, a load
\* that succeeds has consumed the region exactly, and an archive cut inside a
\* record makes the load fail with a format error
C10_MappedLoadInBounds ==
  /\ \A k \in DOMAIN m_files :
       InRegion(m_files[k].data, m_files[k].len) /\ InRegion(m_files[k].cdata, m_files[k].clen)
  /\ MappedParse =>
       /\ last.ret.hi <= m_size
       /\ (last.outcome = "ok" /\ m_size >= 4) => last.ret.p = m_size
       /\ disk \in CutArchives => last.outcome = "throw"

\* C10: loadMmap has refused an archive cut inside a payload
C10_Witness ==
  /\ MappedParse
  /\ last.outcome = "throw"
  /\ disk = Header \o SubSeq(RecGz, 1, Len(RecGz) - 2)
  /\ last.ret.hi = Len(Header) + 8

-----------------------------------------------------------------------------
(* C11: every buffer is released exactly once at teardown *)

\* the destructor has run
TornDown == last.op = "destroy"

\* the destructor returned, gave every block of the heap to free() once, and
\* left the descriptor and the mapping alone
ReleasedOwned ==
  /\ last.outcome = "ok"
  /\ ~last.ret.twice
  /\ heap = EmptyMap
  /\ last.ret.munmap = 0 /\ last.ret.close = 0

\* the destructor returned, gave nothing to free(), and called munmap and
\* close once each
ReleasedMapped ==
  /\ last.outcome = "ok"
  /\ last.ret.freed = {}
  /\ last.ret.munmap = 1 /\ last.ret.close = 1

\* C11: after the teardown of a container populated by builder calls only,
\* or by one owned load that succeeded, every heap block was freed exactly
\* once and none is left; after the teardown of a container populated by one
\* mapped load that succeeded, no entry pointer was freed and the region was
\* unmapped and the descriptor closed exactly once
C11_ExactlyOnceRelease ==
  TornDown =>
    /\ hist.mode \in {"built", "owned"} => ReleasedOwned
    /\ hist.mode = "mapped" => ReleasedMapped

\* C11: the same, for a builder that registered no path twice and for loads
\* of archives in which no name starts with a NUL byte
C11_ReleaseWithoutDuplicates ==
  TornDown =>
    /\ (hist.mode = "built" /\ hist.clean) => ReleasedOwned
    /\ (hist.mode = "owned" /\ \A k \in DOMAIN m_files : IsCString(k)) => ReleasedOwned
    /\ hist.mode = "mapped" => ReleasedMapped

\* C11: a container loaded in defer mode, whose compressed pointer took over
\* the block read from the archive, was torn down and the block freed
C11_DeferTornDown ==
  /\ TornDown
  /\ hist.mode = "owned"
  /\ \E k \in DOMAIN m_files :
       /\ CompressedOnly(m_files[k])
       /\ m_files[k].cdata.k = "heap"
       /\ m_files[k].cdata.id \in last.ret.freed
  /\ ReleasedOwned

-----------------------------------------------------------------------------
(* C12: teardown after a failed load *)

\* the destructor returned, freed every block once, and called munmap and
\* close only for a region that is mapped and a descriptor that is open
SafelyDestroyed ==
  /\ last.outcome = "ok"
  /\ ~last.ret.twice
  /\ heap = EmptyMap
  /\ last.ret.munmap = 1 => m_addr > 0
  /\ last.ret.close = 1 => (m_fd # -1 /\ m_addr # -1)

\* C12: the teardown of a container whose only populating call was a load or
\* a loadMmap that threw completes normally: no assertion trips, every block
\* allocated before the failure is freed once, nothing unmapped is unmapped
\* and no descriptor is closed twice
C12_FailedLoadSafeToDestroy ==
  (TornDown /\ hist.mode = "failed") => SafelyDestroyed

\* C12: the same, for every failure but that of mmap itself
C12_SafeUnlessMapFailed ==
  (TornDown /\ hist.mode = "failed" /\ m_addr # -1) => SafelyDestroyed

\* C12: an owned load that threw inside a payload was torn down and the
\* block it had allocated was freed
C12_PartialLoadTornDown ==
  /\ TornDown
  /\ hist.mode = "failed"
  /\ last.ret.freed # {}
  /\ SafelyDestroyed

\* C11: a container populated by a mapped load was torn down
C11_MappedTornDown ==
  /\ TornDown
  /\ hist.mode = "mapped"
  /\ m_files # EmptyMap
  /\ ReleasedMapped

-----------------------------------------------------------------------------
(* C13: the owned loader and truncated archives *)

\* load has opened the file and parsed it in the current format
OwnedParse ==
  /\ last.op = "load"
  /\ last.arg.version > 0
  /\ last.ret.why = "format"

\* a well-formed archive of two records, and the lengths at which a prefix
\* of it ends at a record boundary
WholeArchive == Header \o RecGz \o RecRaw
RecordBoundaries == {Len(Header), Len(Header \o RecGz), Len(WholeArchive)}

\* the file is WholeArchive cut somewhere at or after the end of the header
CutAnywhere == disk \in Prefixes(WholeArchive) /\ Len(disk) >= Len(Header)

\* the file ends after the first of the two bytes of a name length
CutInNameLength == (Len(disk) - 1) \in RecordBoundaries

\* C13: the owned load of a well-formed archive cut at any point succeeds
\* exactly when the cut is at a record boundary, and throws when the cut is
\* inside a record
C13_TruncationDetected ==
  (OwnedParse /\ CutAnywhere) =>
    /\ Len(disk) \in RecordBoundaries => last.outcome = "ok"
    /\ Len(disk) \notin RecordBoundaries => last.outcome = "throw"

\* C13: the same, for every cut but the one that leaves a single byte of a
\* name length, which load takes for the end of the archive
C13_TruncationDetectedPastNameLength ==
  (OwnedParse /\ CutAnywhere) =>
    /\ (Len(disk) \in RecordBoundaries \/ CutInNameLength) => last.outcome = "ok"
    /\ (Len(disk) \notin RecordBoundaries /\ ~CutInNameLength) => last.outcome = "throw"

\* C13: load has thrown on an archive cut inside the terminator of its
\* first record
C13_CutInTerminator ==
  /\ OwnedParse
  /\ disk = Header \o SubSeq(RecGz, 1, Len(RecGz) - 1)
  /\ last.outcome = "throw"

-----------------------------------------------------------------------------
(* C14: the owned loader and the header *)

\* the file starts with the marker -1 and the current version
HasHeader == Len(disk) >= Len(Header) /\ SubSeq(disk, 1, Len(Header)) = Header

\* C14: an owned load with version > 0 into a fresh container, of a file
\* that does not start with the marker and the version, throws and leaves
\* the table empty
C14_HeaderValidated ==
  (OwnedParse /\ last.arg.fresh /\ ~HasHeader) =>
    (last.outcome = "throw" /\ m_files = EmptyMap)

\* C14: what such a load leaves in the table does not depend on the first
\* four bytes of the file: it is what the load of the same file with a
\* header in their place leaves
C14_HeaderSkipped ==
  (OwnedParse /\ last.arg.fresh /\ Len(disk) >= Len(Header)) =>
    m_files = load_file(Header \o SubSeq(disk, Len(Header) + 1, Len(disk)),
                        last.arg.defer, last.arg.version, EmptyMap, EmptyMap).files

\* C14: load has returned normally with an entry parsed from a file whose
\* first four bytes are not the header
C14_ParsedWithoutHeader ==
  /\ OwnedParse
  /\ disk = <<0, 0, 1, 0>> \o RecRaw
  /\ last.outcome = "ok"
  /\ <<102>> \in DOMAIN m_files

-----------------------------------------------------------------------------
(* C15: a registerFile call that fails *)

\* this step is a call of write(name, fullpath) that threw
RegisterThrew ==
  /\ hist'.nreg = hist.nreg + 1
  /\ last'.op = "write_fullpath"
  /\ last'.outcome = "throw"

\* C15: a call of write(name, fullpath) that throws leaves the table and the
\* heap as they were
C15_FailedRegisterLeavesTable ==
  [][RegisterThrew => (m_files' = m_files /\ heap' = heap)]_vars

\* C15: a call of write(name, fullpath) that throws leaves every entry but
\* that of name as it was, and synthesizes no directory
C15_FailedRegisterTouchesOnlyName ==
  [][RegisterThrew =>
       /\ DOMAIN m_files' \subseteq DOMAIN m_files \cup {last'.arg.name}
       /\ \A k \in DOMAIN m_files \ {last'.arg.name} :
            k \in DOMAIN m_files' /\ m_files'[k] = m_files[k]]_vars

\* C15: a call that threw has left an entry with a positive length and no bytes
C15_EntryWithoutBytes ==
  /\ last.op = "write_fullpath"
  /\ last.outcome = "throw"
  /\ last.arg.name \in DOMAIN m_files
  /\ m_files[last.arg.name].len > 0
  /\ m_files[last.arg.name].data = Null
  /\ m_files[last.arg.name].cdata = Null

-----------------------------------------------------------------------------
(* C16: every present path is a file or a directory *)

\* the table was populated by builder calls only, or by one load or loadMmap
\* that succeeded on an archive save had written from a table that was built
BuiltOrLoaded ==
  \/ hist.mode = "built"
  \/ hist.mode \in {"owned", "mapped"} /\ hist.saved.files # EmptyMap

\* exists, fileExists and dirExists agree on path p
OneKind(p) ==
  /\ exists(m_files, p) <=> (fileExists(m_files, p) \/ dirExists(m_files, p))
  /\ ~(fileExists(m_files, p) /\ dirExists(m_files, p))

\* the length field of the entry is -2, -1, 0 or positive, and the entry has
\* bytes exactly when its raw or its compressed length is positive
WellFormedEntry(buf) ==
  /\ buf.len >= -2
  /\ (buf.data # Null \/ buf.cdata # Null) <=> (buf.len > 0 \/ buf.clen > 0)
  /\ buf.data # Null => buf.len > 0
  /\ buf.cdata # Null => buf.clen > 0

\* C16: in a table populated by builder calls only, or by one load that
\* succeeded, every path is present iff it is a file or a directory, never
\* both, and every entry is well formed
C16_FileOrDirectory ==
  BuiltOrLoaded =>
    /\ \A p \in QueryNames : OneKind(p)
    /\ \A k \in DOMAIN m_files : WellFormedEntry(m_files[k])

\* C16: the same, for a builder none of whose calls threw
C16_FileOrDirectoryWhenBuilt ==
  (BuiltOrLoaded /\ (hist.mode = "built" => hist.allok)) =>
    /\ \A p \in QueryNames : OneKind(p)
    /\ \A k \in DOMAIN m_files : WellFormedEntry(m_files[k])

\* C16: a table loaded from a saved archive holds a directory, and a file
\* with only its compressed bytes
C16_LoadedKinds ==
  /\ hist.mode \in {"owned", "mapped"}
  /\ hist.saved.valid
  /\ \E k \in DOMAIN m_files : dirExists(m_files, k)
  /\ \E k \in DOMAIN m_files : fileExists(m_files, k) /\ CompressedOnly(m_files[k])

====
